---- MODULE Spec2Model ----
\* Object-wise sub-relation based process discovery
\* (Object-wise-sub-relation-based-process-Discovery.py).
\*
\* An OCEL is three tables: events (rows with "ocel:eid"), objects (rows with
\* "ocel:oid" and "ocel:type") and relations (rows with "ocel:eid" and
\* "ocel:oid").  A table is a sequence of rows; filtering a table keeps the
\* rows, their order and their multiplicity.  pm4py.discover_ocdfg and
\* pm4py.view_ocdfg are external: each call either returns or raises.
EXTENDS Integers, Sequences, FiniteSets, TLC

\* ---------------------------------------------------------------- bounds
MaxObjects   == 2
MaxRelations == 3

\* ------------------------------------------------------- input universes
EventIds    == {"e1", "e2"}
ObjectIds   == {"o1", "o2"}
ObjectTypes == {"order", "item"}

\* object_id_to_type.get(oid) for an oid that is not a key
None == "None"

\* -------------------------------------------------------- generic helpers
Range(s) == {s[k] : k \in DOMAIN s}

SeqsUpTo(S, n) == UNION {[1..m -> S] : m \in 0..n}

\* number of positions of s that hold x
Count(s, x) == Cardinality({k \in DOMAIN s : s[k] = x})

\* df[df[col].isin(values)]: the rows whose column value is among values;
\* row order and duplicate rows are kept
IsinFilter(df, col, values) == SelectSeq(df, LAMBDA row : row[col] \in values)

\* first-seen order of the distinct elements of s, faulty variant: sorted order
\* (item < order), as a plain sorted() over the type column would give
TypeRank(t) == IF t = "item" THEN 1 ELSE 2

RECURSIVE SortedDistinct(_)
SortedDistinct(S) ==
  IF S = {} THEN <<>>
  ELSE LET m == CHOOSE x \in S : \A y \in S : TypeRank(x) <= TypeRank(y)
       IN <<m>> \o SortedDistinct(S \ {m})

UniqueSorted(s) == SortedDistinct(Range(s))

\* Series.unique(): the distinct values in order of first appearance
RECURSIVE UniqueFrom(_, _, _)
UniqueFrom(s, k, acc) ==
  IF k > Len(s) THEN acc
  ELSE UniqueFrom(s, k + 1,
                  IF s[k] \in Range(acc) THEN acc ELSE Append(acc, s[k]))

Unique(s) == UniqueFrom(s, 1, <<>>)

\* an insertion-ordered dict: keys in insertion order, vals the mapping
EmptyDict == [keys |-> <<>>, vals |-> <<>>]

DictGet(d, k) == IF k \in Range(d.keys) THEN d.vals[k] ELSE None

\* d[k] = v : a new key goes last, an existing key keeps its position
DictSet(d, k, v) ==
  [keys |-> IF k \in Range(d.keys) THEN d.keys ELSE Append(d.keys, k),
   vals |-> [x \in Range(d.keys) \cup {k} |->
               IF x = k THEN v ELSE d.vals[x]]]

\* d.items() in insertion order
DictItems(d) == [k \in DOMAIN d.keys |-> <<d.keys[k], d.vals[d.keys[k]]>>]

\* ------------------------------------------- _extract_universal_relation
\* dict(zip(objects_df["ocel:oid"], objects_df["ocel:type"])): a later row
\* with the same oid overwrites the earlier one
RECURSIVE ZipDictFrom(_, _, _)
ZipDictFrom(objects_df, k, d) ==
  IF k > Len(objects_df) THEN d
  ELSE ZipDictFrom(objects_df, k + 1,
                   DictSet(d, objects_df[k].oid, objects_df[k].type))

object_id_to_type(objects_df) == ZipDictFrom(objects_df, 1, EmptyDict)

\* event_to_objects[row eid].append(row oid) for every relation row,
\* faulty variant: the per-event collection is a set (an oid is stored once)
RECURSIVE GroupDedupFrom(_, _, _)
GroupDedupFrom(relations_df, k, d) ==
  IF k > Len(relations_df) THEN d
  ELSE LET row == relations_df[k]
           old == IF row.eid \in Range(d.keys) THEN d.vals[row.eid] ELSE <<>>
       IN GroupDedupFrom(relations_df, k + 1,
            DictSet(d, row.eid,
                    IF row.oid \in Range(old) THEN old
                    ELSE Append(old, row.oid)))

event_to_objects_dedup(relations_df) ==
  GroupDedupFrom(relations_df, 1, EmptyDict)

\* event_to_objects = defaultdict(list); the loop over relations_df.iterrows()
RECURSIVE GroupFrom(_, _, _)
GroupFrom(relations_df, k, d) ==
  IF k > Len(relations_df) THEN d
  ELSE LET row == relations_df[k]
           old == IF row.eid \in Range(d.keys) THEN d.vals[row.eid] ELSE <<>>
       IN GroupFrom(relations_df, k + 1,
                    DictSet(d, row.eid, Append(old, row.oid)))

event_to_objects(relations_df) == GroupFrom(relations_df, 1, EmptyDict)

\* the nested comprehension, faulty variant: an oid without a type is skipped
RECURSIVE FlattenResolvedFrom(_, _, _)
FlattenResolvedFrom(e2o, id2type, k) ==
  IF k > Len(e2o.keys) THEN <<>>
  ELSE LET eid  == e2o.keys[k]
           oids == SelectSeq(e2o.vals[eid],
                             LAMBDA oid : DictGet(id2type, oid) # None)
       IN [j \in DOMAIN oids |->
             [event_id    |-> eid,
              object_id   |-> oids[j],
              object_type |-> DictGet(id2type, oids[j])]]
          \o FlattenResolvedFrom(e2o, id2type, k + 1)

\* the nested comprehension: for eid, oids in items() for oid in oids
RECURSIVE FlattenFrom(_, _, _)
FlattenFrom(e2o, id2type, k) ==
  IF k > Len(e2o.keys) THEN <<>>
  ELSE LET eid  == e2o.keys[k]
           oids == e2o.vals[eid]
       IN [j \in DOMAIN oids |->
             [event_id    |-> eid,
              object_id   |-> oids[j],
              object_type |-> DictGet(id2type, oids[j])]]
          \o FlattenFrom(e2o, id2type, k + 1)

universal_entries_resolved(e2o, id2type) ==
  FlattenResolvedFrom(e2o, id2type, 1)

\* lines 47-55: universal_relation
universal_entries(e2o, id2type) == FlattenFrom(e2o, id2type, 1)

\* lines 28-60
_extract_universal_relation(log) ==
  LET id2type == object_id_to_type(log.objects)
      e2o     == event_to_objects(log.relations)
      ur      == universal_entries(e2o, id2type)
  IN [universal_relation |-> ur, total_relation_count |-> Len(ur)]

\* ------------------------------------ _discover_sub_model_for_object_type
\* the list comprehension over universal_relation, faulty variant: the events of
\* every entry whose type differs from the focus type
relevant_event_ids_other(universal_relation, object_type) ==
  LET hit == SelectSeq(universal_relation,
                       LAMBDA rel : rel.object_type # object_type)
  IN [k \in DOMAIN hit |-> hit[k].event_id]

\* [rel["event_id"] for rel in universal_relation
\*      if rel["object_type"] == object_type]
relevant_event_ids(universal_relation, object_type) ==
  LET hit == SelectSeq(universal_relation,
                       LAMBDA rel : rel.object_type = object_type)
  IN [k \in DOMAIN hit |-> hit[k].event_id]

\* sub_relations, faulty variant: filtered by the identifiers of sub_events
sub_relations_by_sub_events(log, relevant) ==
  IsinFilter(log.relations, "eid",
             {ev.eid : ev \in Range(IsinFilter(log.events, "eid",
                                               Range(relevant)))})

\* relations_df[relations_df["ocel:eid"].isin(relevant_event_ids)]
sub_relations_of(log, relevant) ==
  IsinFilter(log.relations, "eid", Range(relevant))

\* related objects, faulty variant: the filter reads the whole relation table
\* instead of sub_relations
related_objects_all(log, sub_relations) ==
  IsinFilter(log.objects, "oid",
             {log.relations[k].oid : k \in DOMAIN log.relations})

\* related_object_ids = set(sub_relations["ocel:oid"]);
\* objects_df[objects_df["ocel:oid"].isin(related_object_ids)]
related_objects_of(log, sub_relations) ==
  LET related_object_ids == {sub_relations[k].oid : k \in DOMAIN sub_relations}
  IN IsinFilter(log.objects, "oid", related_object_ids)

\* the sub-OCEL, faulty variant: a type-exclusive relation filter (only the rows
\* whose own object is of the focus type)
SubOcelTypeExclusive(log, universal_relation, object_type) ==
  LET relevant      == relevant_event_ids(universal_relation, object_type)
      id2type       == object_id_to_type(log.objects)
      sub_events    == IsinFilter(log.events, "eid", Range(relevant))
      sub_relations == SelectSeq(log.relations,
                         LAMBDA row : DictGet(id2type, row.oid) = object_type)
      objs          == related_objects_of(log, sub_relations)
  IN [relevant_event_ids |-> relevant,
      sub_ocel |-> [events |-> sub_events, objects |-> objs,
                    relations |-> sub_relations],
      sub_relation_count |-> Len(sub_relations)]

\* the part of _discover_sub_model_for_object_type before the pm4py calls:
\* the relevant events, the sub-OCEL and its relation count
SubOcel(log, universal_relation, object_type) ==
  LET relevant      == relevant_event_ids(universal_relation, object_type)
      sub_events    == IsinFilter(log.events, "eid", Range(relevant))
      sub_relations == sub_relations_of(log, relevant)
      objs          == related_objects_of(log, sub_relations)
  IN [relevant_event_ids |-> relevant,
      sub_ocel |-> [events |-> sub_events, objects |-> objs,
                    relations |-> sub_relations],
      sub_relation_count |-> Len(sub_relations)]

\* object types, faulty variant: enumerated from the types the relation rows
\* resolve to instead of from the Object table
object_types_from_relation(log) ==
  LET ur == _extract_universal_relation(log).universal_relation
  IN Unique(SelectSeq([k \in DOMAIN ur |-> ur[k].object_type],
                      LAMBDA t : t # None))

\* ocel.objects["ocel:type"].unique()
object_types_of(log) ==
  Unique([k \in DOMAIN log.objects |-> log.objects[k].type])

\* --------------------------------------------------------------- the logs
\* the event table has unique event identifiers; it lists any subset of
\* the events, in the order of LogOrder
LogOrder == << [eid |-> "e1"], [eid |-> "e2"] >>

EventTables ==
  {SelectSeq(LogOrder, LAMBDA row : row.eid \in S) : S \in SUBSET EventIds}

\* object rows; an oid may repeat (not expected, not an error)
ObjectTables == SeqsUpTo([oid : ObjectIds, type : ObjectTypes], MaxObjects)

\* relation rows; duplicates are allowed, and neither the eid nor the oid
\* has to exist in its table (nothing validates the log)
RelationTables == SeqsUpTo([eid : EventIds, oid : ObjectIds], MaxRelations)

Ocels == [events : EventTables, objects : ObjectTables,
          relations : RelationTables]

\* ------------------------------------------------------------------ state
VARIABLES
  ocel,                  \* the argument of discover_object_wise_sub_models_with_counts
  pc,                    \* position in the run
  universal_relation,    \* line 143
  total_universal_count, \* line 143
  discovered_models,     \* line 146
  sub_relation_counts,   \* line 147
  object_types,          \* line 150
  pos,                   \* index into object_types of the type in the loop
  part,                  \* locals of _discover_sub_model_for_object_type
  ocdfg_model,           \* line 113
  trace,                 \* what the run did so far, in order: the lines it
                         \* printed and the pm4py calls with their outcome
  returned,              \* the value returned to the caller, or None
  raised                 \* the exception that reached the caller, or None

vars == <<ocel, pc, universal_relation, total_universal_count,
          discovered_models, sub_relation_counts, object_types, pos, part,
          ocdfg_model, trace, returned, raised>>

obj_type == object_types[pos]

\* what pm4py.discover_ocdfg returns for a sub-OCEL: an opaque value
OcdfgOf(sub_ocel) == [ocdfg_of |-> sub_ocel]

\* an exception raised inside pm4py: it is built by the service from what
\* the service was given
PmError(service, arg) == [error_in |-> service, arg |-> arg]

Init ==
  /\ ocel \in Ocels
  /\ pc = "start"
  /\ universal_relation = <<>>
  /\ total_universal_count = 0
  /\ discovered_models = EmptyDict
  /\ sub_relation_counts = EmptyDict
  /\ object_types = <<>>
  /\ pos = 0
  /\ part = None
  /\ ocdfg_model = None
  /\ trace = <<>>
  /\ returned = None
  /\ raised = None

\* the loop header at line 151: the next type, or the summary after the last
NextPc(n, k) == IF k < n THEN "partition" ELSE "summary"

\* lines 142-150: the universal relation, the containers, the object types
Extract ==
  /\ pc = "start"
  /\ LET r == _extract_universal_relation(ocel)
         types == object_types_of(ocel)
     IN /\ universal_relation' = r.universal_relation
        /\ total_universal_count' = r.total_relation_count
        /\ trace' = Append(trace, <<"print", "total", r.total_relation_count>>)
        /\ object_types' = types
        /\ pos' = IF Len(types) > 0 THEN 1 ELSE 0
        /\ pc' = NextPc(Len(types), 0)
  /\ discovered_models' = EmptyDict
  /\ sub_relation_counts' = EmptyDict
  /\ UNCHANGED <<ocel, part, ocdfg_model, returned, raised>>

\* lines 81-110: the sub-OCEL of the current type and its count
Partition ==
  /\ pc = "partition"
  /\ LET p == SubOcel(ocel, universal_relation, obj_type)
     IN /\ part' = p
        /\ trace' = trace \o
             << <<"print", "discovery", obj_type>>,
                <<"print", "count", obj_type, p.sub_relation_count>> >>
  /\ pc' = "discover"
  /\ UNCHANGED <<ocel, universal_relation, total_universal_count,
                 discovered_models, sub_relation_counts, object_types, pos,
                 ocdfg_model, returned, raised>>

\* line 113, pm4py.discover_ocdfg returns
DiscoverReturns ==
  /\ pc = "discover"
  /\ trace' = Append(trace, <<"call", "discover_ocdfg", part.sub_ocel,
                              "returns">>)
  /\ ocdfg_model' = OcdfgOf(part.sub_ocel)
  /\ pc' = "view"
  /\ UNCHANGED <<ocel, universal_relation, total_universal_count,
                 discovered_models, sub_relation_counts, object_types, pos,
                 part, returned, raised>>

\* line 113 raising, faulty variant: a try/except around the per-type step that
\* skips the failing type and goes on with the next one
DiscoverRaisesSwallowed ==
  /\ pc = "discover"
  /\ trace' = Append(trace, <<"call", "discover_ocdfg", part.sub_ocel,
                              "raises">>)
  /\ pc' = NextPc(Len(object_types), pos)
  /\ pos' = IF pos < Len(object_types) THEN pos + 1 ELSE pos
  /\ UNCHANGED <<ocel, universal_relation, total_universal_count,
                 discovered_models, sub_relation_counts, object_types,
                 part, ocdfg_model, returned, raised>>

\* line 113, pm4py.discover_ocdfg raises: nothing catches it, in
\* _discover_sub_model_for_object_type or in the loop at lines 151-154
DiscoverRaises ==
  /\ pc = "discover"
  /\ trace' = Append(trace, <<"call", "discover_ocdfg", part.sub_ocel,
                              "raises">>)
  /\ raised' = PmError("discover_ocdfg", part.sub_ocel)
  /\ pc' = "raised"
  /\ UNCHANGED <<ocel, universal_relation, total_universal_count,
                 discovered_models, sub_relation_counts, object_types, pos,
                 part, ocdfg_model, returned>>

\* line 116, pm4py.view_ocdfg returns (its value is not used)
ViewReturns ==
  /\ pc = "view"
  /\ trace' = Append(trace, <<"call", "view_ocdfg", ocdfg_model, "returns">>)
  /\ pc' = "record"
  /\ UNCHANGED <<ocel, universal_relation, total_universal_count,
                 discovered_models, sub_relation_counts, object_types, pos,
                 part, ocdfg_model, returned, raised>>

\* line 116 raising, faulty variant: the failure of the optional visualization is
\* ignored and the model is recorded
ViewRaisesIgnored ==
  /\ pc = "view"
  /\ trace' = Append(trace, <<"call", "view_ocdfg", ocdfg_model, "raises">>)
  /\ pc' = "record"
  /\ UNCHANGED <<ocel, universal_relation, total_universal_count,
                 discovered_models, sub_relation_counts, object_types, pos,
                 part, ocdfg_model, returned, raised>>

\* line 116, pm4py.view_ocdfg raises: nothing catches it
ViewRaises ==
  /\ pc = "view"
  /\ trace' = Append(trace, <<"call", "view_ocdfg", ocdfg_model, "raises">>)
  /\ raised' = PmError("view_ocdfg", ocdfg_model)
  /\ pc' = "raised"
  /\ UNCHANGED <<ocel, universal_relation, total_universal_count,
                 discovered_models, sub_relation_counts, object_types, pos,
                 part, ocdfg_model, returned>>

\* lines 118, 152-154: the count and the model are stored under the type,
\* and the loop goes on
Record ==
  /\ pc = "record"
  /\ sub_relation_counts' =
       DictSet(sub_relation_counts, obj_type, part.sub_relation_count)
  /\ discovered_models' = DictSet(discovered_models, obj_type, ocdfg_model)
  /\ pc' = NextPc(Len(object_types), pos)
  /\ pos' = IF pos < Len(object_types) THEN pos + 1 ELSE pos
  /\ UNCHANGED <<ocel, universal_relation, total_universal_count,
                 object_types, part, ocdfg_model, trace, returned, raised>>

\* lines 156-160: the summary, then the triple goes back to the caller
Return ==
  /\ pc = "summary"
  /\ trace' = trace \o << <<"print", "summary">> >>
                 \o [k \in DOMAIN sub_relation_counts.keys |->
                       <<"print", "summary_line">>
                         \o DictItems(sub_relation_counts)[k]]
  /\ returned' = <<total_universal_count, sub_relation_counts,
                   discovered_models>>
  /\ pc' = "returned"
  /\ UNCHANGED <<ocel, universal_relation, total_universal_count,
                 discovered_models, sub_relation_counts, object_types, pos,
                 part, ocdfg_model, raised>>

Next ==
  \/ Extract
  \/ Partition
  \/ DiscoverReturns
  \/ DiscoverRaises
  \/ ViewReturns
  \/ ViewRaises
  \/ Record
  \/ Return

Spec == Init /\ [][Next]_vars

\* =================================================================
\* Properties
\* =================================================================

\* the type an object identifier stands for in the Object table: the type
\* of its last row, None when no row has it
ResolvedType(oid) ==
  LET rows == {k \in DOMAIN ocel.objects : ocel.objects[k].oid = oid}
  IN IF rows = {} THEN None
     ELSE ocel.objects[CHOOSE k \in rows : \A j \in rows : j <= k].type

Unresolved(row) == \A k \in DOMAIN ocel.objects : ocel.objects[k].oid # row.oid

\* the events that have a relation row resolving to type T
EventsOfType(T) ==
  {ocel.relations[k].eid :
     k \in {j \in DOMAIN ocel.relations :
              ResolvedType(ocel.relations[j].oid) = T}}

TypesInObjectTable == {ocel.objects[k].type : k \in DOMAIN ocel.objects}

EventIdsOf(df) == {df[k].eid : k \in DOMAIN df}
ObjectIdsOf(df) == {df[k].oid : k \in DOMAIN df}

\* _discover_sub_model_for_object_type has built the sub-OCEL of obj_type
\* and is about to hand it to pm4py.discover_ocdfg: part is the partition of
\* obj_type
Partitioned == pc = "discover"

\* _extract_universal_relation has just returned
Extracted == pc # "start" /\ Len(trace) = 1

sub_events    == part.sub_ocel.events
sub_objects   == part.sub_ocel.objects
sub_relations == part.sub_ocel.relations

\* the (event_id, object_id) pairs of the universal relation
UniversalPairs ==
  [k \in DOMAIN universal_relation |->
     [eid |-> universal_relation[k].event_id,
      oid |-> universal_relation[k].object_id]]

\* -----------------------------------------------------------------
\* C1: the universal relation that is returned has one entry per row
\* of the Relation table: every row occurs in it as often as in the table
\* (duplicates and rows with an unknown object included), and total_count is
\* its length and the number of rows of the table.
C1_CountConservation ==
  Extracted =>
    /\ Len(universal_relation) = Len(ocel.relations)
    /\ total_universal_count = Len(universal_relation)
    /\ total_universal_count = Len(ocel.relations)
    /\ \A row \in [eid : EventIds, oid : ObjectIds] :
         Count(UniversalPairs, row) = Count(ocel.relations, row)

\* a log with a duplicate relation row and a row whose object is unknown
C1_Witness ==
  /\ Extracted
  /\ \E j, k \in DOMAIN ocel.relations :
       j # k /\ ocel.relations[j] = ocel.relations[k]
  /\ \E k \in DOMAIN ocel.relations : Unresolved(ocel.relations[k])
  /\ total_universal_count = 3

\* -----------------------------------------------------------------
\* C2: partition completeness.  In the partition of type T, every relation
\* row whose object resolves to T has its event among the relevant events
\* and is itself in sub_relations (as often as in the Relation table).
C2_PartitionCompleteness ==
  Partitioned =>
    \A k \in DOMAIN ocel.relations :
      LET row == ocel.relations[k]
      IN ResolvedType(row.oid) = obj_type =>
           /\ row.eid \in Range(part.relevant_event_ids)
           /\ Count(sub_relations, row) = Count(ocel.relations, row)

\* a partition that keeps a row of its type and leaves another row out
C2_Witness ==
  /\ Partitioned
  /\ \E k \in DOMAIN ocel.relations :
       ResolvedType(ocel.relations[k].oid) = obj_type
  /\ \E k \in DOMAIN ocel.relations :
       ocel.relations[k] \notin Range(sub_relations)

\* -----------------------------------------------------------------
\* C3: sub-log self-consistency.  Every event of sub_events and every
\* object of sub_objects is referred to by a row of sub_relations.
C3_SelfConsistency ==
  Partitioned =>
    /\ \A ev \in Range(sub_events) :
         \E r \in Range(sub_relations) : r.eid = ev.eid
    /\ \A ob \in Range(sub_objects) :
         \E r \in Range(sub_relations) : r.oid = ob.oid

\* a partition with an event and an object, while the log has an event, an
\* object and a relation row that the partition leaves out
C3_Witness ==
  /\ Partitioned
  /\ sub_events # <<>>
  /\ sub_objects # <<>>
  /\ Len(sub_events) < Len(ocel.events)
  /\ Len(sub_objects) < Len(ocel.objects)
  /\ Len(sub_relations) < Len(ocel.relations)

\* -----------------------------------------------------------------
\* C4 as stated: a relation row whose object is absent from the Object
\* table is in no type's sub_relations (and so in no type's sub_count).
C4_UnresolvedExcluded ==
  Partitioned =>
    \A k \in DOMAIN ocel.relations :
      Unresolved(ocel.relations[k]) =>
        ocel.relations[k] \notin Range(sub_relations)

\* C4, amended: a relation row whose object is absent from the Object table
\* is counted in total_count, its universal-relation entries have the absent
\* type, and it never makes its event relevant to a type; it is in T's
\* sub_relations (with all its copies, each counted in T's sub_count)
\* exactly when another relation row of the same event resolves to T.
C4_UnresolvedFollowsEvent ==
  Partitioned =>
    /\ total_universal_count = Len(ocel.relations)
    /\ Range(part.relevant_event_ids) = EventsOfType(obj_type)
    /\ part.sub_relation_count = Len(sub_relations)
    /\ \A k \in DOMAIN ocel.relations :
         LET row == ocel.relations[k]
         IN Unresolved(row) =>
              /\ Count(universal_relation,
                       [event_id |-> row.eid, object_id |-> row.oid,
                        object_type |-> None])
                   = Count(ocel.relations, row)
              /\ Count(sub_relations, row) =
                   IF row.eid \in EventsOfType(obj_type)
                   THEN Count(ocel.relations, row) ELSE 0

\* one unresolved row inside the partition (its event has a row of the
\* type) and one unresolved row outside it
C4_Witness ==
  /\ Partitioned
  /\ \E j, k \in DOMAIN ocel.relations :
       /\ Unresolved(ocel.relations[j])
       /\ Unresolved(ocel.relations[k])
       /\ ocel.relations[j] \in Range(sub_relations)
       /\ ocel.relations[k] \notin Range(sub_relations)

\* -----------------------------------------------------------------
\* C5: type coverage.  When the orchestrator returns, the keys of the
\* counts and the keys of the models are exactly the distinct types of the
\* Object table, each once; a type no relation row resolves to has count 0,
\* and its empty sub-log was passed to pm4py.discover_ocdfg, whose result
\* is its model.
EmptyOcel == [events |-> <<>>, objects |-> <<>>, relations |-> <<>>]

C5_TypeCoverage ==
  pc = "returned" =>
    LET counts == returned[2]
        models == returned[3]
    IN /\ Range(counts.keys) = TypesInObjectTable
       /\ Range(models.keys) = TypesInObjectTable
       /\ DOMAIN counts.vals = TypesInObjectTable
       /\ DOMAIN models.vals = TypesInObjectTable
       /\ Len(counts.keys) = Cardinality(TypesInObjectTable)
       /\ Len(models.keys) = Cardinality(TypesInObjectTable)
       /\ \A T \in TypesInObjectTable :
            EventsOfType(T) = {} =>
              /\ counts.vals[T] = 0
              /\ models.vals[T] = OcdfgOf(EmptyOcel)
              /\ \E k \in DOMAIN trace :
                   trace[k] = <<"call", "discover_ocdfg", EmptyOcel, "returns">>

\* a returned report for two types, one with relation rows, one with none
C5_Witness ==
  /\ pc = "returned"
  /\ Cardinality(TypesInObjectTable) = 2
  /\ \E T \in TypesInObjectTable : EventsOfType(T) = {}
  /\ \E T \in TypesInObjectTable : returned[2].vals[T] > 0

\* -----------------------------------------------------------------
\* C6: the sub_count of type T is the number of relation rows whose event
\* is relevant to T, rows to objects of other types included; it is not
\* the number of rows whose object is of type T.  On the log of the
\* scenario: total_count 3, sub_count 2 for order and 3 for item,
\* sub_objects {o1, o2} for both.
ScenarioLog ==
  [events    |-> << [eid |-> "e1"], [eid |-> "e2"] >>,
   objects   |-> << [oid |-> "o1", type |-> "order"],
                    [oid |-> "o2", type |-> "item"] >>,
   relations |-> << [eid |-> "e1", oid |-> "o1"],
                    [eid |-> "e1", oid |-> "o2"],
                    [eid |-> "e2", oid |-> "o2"] >>]

RowsOfEvents(E) ==
  Cardinality({k \in DOMAIN ocel.relations : ocel.relations[k].eid \in E})

RowsOfType(T) ==
  Cardinality({k \in DOMAIN ocel.relations :
                 ResolvedType(ocel.relations[k].oid) = T})

C6_SubCount ==
  /\ Partitioned =>
       /\ part.sub_relation_count = RowsOfEvents(EventsOfType(obj_type))
       /\ ocel = ScenarioLog =>
            /\ ObjectIdsOf(sub_objects) = {"o1", "o2"}
            /\ obj_type = "order" =>
                 /\ part.sub_relation_count = 2
                 /\ part.sub_relation_count # RowsOfType("order")
            /\ obj_type = "item" => part.sub_relation_count = 3
  /\ pc \in {"partition", "summary"} =>
       \A T \in Range(sub_relation_counts.keys) :
         sub_relation_counts.vals[T] = RowsOfEvents(EventsOfType(T))
  /\ (pc = "returned" /\ ocel = ScenarioLog) =>
       /\ returned[1] = 3
       /\ returned[2].vals = [T \in {"order", "item"} |->
                                IF T = "order" THEN 2 ELSE 3]

\* the scenario's report
C6_Witness ==
  /\ pc = "returned"
  /\ ocel = ScenarioLog
  /\ returned[2].keys = <<"order", "item">>

\* -----------------------------------------------------------------
\* C7 as stated: the relations of the sub-log are exactly the relation rows
\* whose event is in sub_events, and its objects exactly the object rows
\* whose identifier is in those relations.
C7_RelationsOfSubEvents ==
  Partitioned =>
    /\ sub_relations =
         IsinFilter(ocel.relations, "eid", EventIdsOf(sub_events))
    /\ sub_objects =
         IsinFilter(ocel.objects, "oid", ObjectIdsOf(sub_relations))

\* C7, amended: the relations of the sub-log are exactly the relation rows
\* whose event is relevant to T (has a row resolving to T), whether or not
\* the Event table has that event; sub_events are the Event rows of those
\* events, so a row of sub_relations refers to an event missing from
\* sub_events exactly when the Event table lacks the event, and on a log
\* whose relation rows all name events of the Event table the relations are
\* the rows whose event is in sub_events.  The objects are exactly the
\* object rows whose identifier is in those relations.
C7_RelationsOfRelevantEvents ==
  Partitioned =>
    /\ sub_relations =
         IsinFilter(ocel.relations, "eid", EventsOfType(obj_type))
    /\ sub_events = IsinFilter(ocel.events, "eid", EventsOfType(obj_type))
    /\ sub_objects =
         IsinFilter(ocel.objects, "oid", ObjectIdsOf(sub_relations))
    /\ \A r \in Range(sub_relations) :
         r.eid \notin EventIdsOf(sub_events) <=>
           r.eid \notin EventIdsOf(ocel.events)
    /\ EventIdsOf(ocel.relations) \subseteq EventIdsOf(ocel.events) =>
         sub_relations =
           IsinFilter(ocel.relations, "eid", EventIdsOf(sub_events))

\* a partition with a row whose event the Event table lacks, next to a row
\* whose event is in sub_events
C7_Witness ==
  /\ Partitioned
  /\ \E r \in Range(sub_relations) : r.eid \notin EventIdsOf(sub_events)
  /\ \E r \in Range(sub_relations) : r.eid \in EventIdsOf(sub_events)
  /\ sub_objects # <<>>

\* -----------------------------------------------------------------
\* the pm4py calls of the trace that raised
RaisedCalls == {k \in DOMAIN trace : trace[k][1] = "call" /\ trace[k][4] = "raises"}

\* the type an error names: its object_type attribute when it has one
ErrorObjectType(exc) ==
  IF "object_type" \in DOMAIN exc THEN exc.object_type ELSE None

\* the type named by the last "Object Type Perspective" line printed
LastAnnouncedType ==
  LET lines == {k \in DOMAIN trace :
                  trace[k][1] = "print" /\ trace[k][2] = "discovery"}
  IN IF lines = {} THEN None
     ELSE trace[CHOOSE k \in lines : \A j \in lines : j <= k][3]

\* C8 as stated: a failure of pm4py.discover_ocdfg or pm4py.view_ocdfg
\* while type T is processed reaches the caller as an error that carries T.
C8_ErrorCarriesType ==
  RaisedCalls # {} =>
    /\ pc = "raised"
    /\ ErrorObjectType(raised) = obj_type

\* C8, amended: a failure of pm4py.discover_ocdfg or pm4py.view_ocdfg while
\* type T is processed is never suppressed: it reaches the caller, who gets
\* no report, as the exception pm4py raised, unchanged.  The exception
\* carries no object type; T is named only by the progress line printed
\* before the call.
C8_ErrorPassedThrough ==
  RaisedCalls # {} =>
    /\ pc = "raised"
    /\ returned = None
    /\ RaisedCalls = {Len(trace)}
    /\ raised = PmError(trace[Len(trace)][2], trace[Len(trace)][3])
    /\ ErrorObjectType(raised) = None
    /\ LastAnnouncedType = obj_type

\* a failure on the second type, after the first type was recorded
C8_Witness ==
  /\ pc = "raised"
  /\ pos = 2
  /\ raised.error_in = "discover_ocdfg"

\* -----------------------------------------------------------------
\* the number of calls of a pm4py service in the trace
CallsOf(service) ==
  Cardinality({k \in DOMAIN trace :
                 trace[k][1] = "call" /\ trace[k][2] = service})

\* the types whose partitioning has begun
AnnouncedTypes ==
  SelectSeq(trace, LAMBDA e : e[1] = "print" /\ e[2] = "discovery")

\* C9: abort on first failure.  Once a pm4py call has failed for the k-th
\* type, the run is over with that failure: nothing was retried
\* (discover_ocdfg was called once for each of the first k types, view_ocdfg
\* once for each type before the k-th and at most once for the k-th), no
\* later type was partitioned, counts and models hold the types before the
\* k-th only, and no report is returned.
C9_AbortOnFirstFailure ==
  RaisedCalls # {} =>
    /\ pc = "raised"
    /\ raised.error_in = trace[Len(trace)][2]
    /\ returned = None
    /\ RaisedCalls = {Len(trace)}
    /\ CallsOf("discover_ocdfg") = pos
    /\ CallsOf("view_ocdfg") =
         IF raised.error_in = "view_ocdfg" THEN pos ELSE pos - 1
    /\ Len(AnnouncedTypes) = pos
    /\ \A k \in 1..pos : AnnouncedTypes[k][3] = object_types[k]
    /\ sub_relation_counts.keys = SubSeq(object_types, 1, pos - 1)
    /\ discovered_models.keys = SubSeq(object_types, 1, pos - 1)
    /\ obj_type \notin DOMAIN sub_relation_counts.vals
    /\ obj_type \notin DOMAIN discovered_models.vals

\* pm4py.view_ocdfg failed for the first of two types
C9_Witness ==
  /\ pc = "raised"
  /\ raised.error_in = "view_ocdfg"
  /\ pos = 1
  /\ Len(object_types) = 2

\* -----------------------------------------------------------------
\* position of the first row of the Object table that has type T
FirstRowOfType(T) ==
  CHOOSE k \in DOMAIN ocel.objects :
    /\ ocel.objects[k].type = T
    /\ \A j \in DOMAIN ocel.objects : ocel.objects[j].type = T => k <= j

\* s lists the distinct types of the Object table in first-seen order
FirstSeenOrder(s) ==
  /\ Range(s) = TypesInObjectTable
  /\ \A j, k \in DOMAIN s :
       j < k => FirstRowOfType(s[j]) < FirstRowOfType(s[k])

\* what a trace entry is, without the values it carries: the kind of line
\* or the service called, and the type it is about
Step(e) ==
  IF e[1] = "call" THEN <<e[2]>>
  ELSE IF e[2] \in {"total", "summary"} THEN <<e[2]>>
  ELSE <<e[2], e[3]>>

\* the steps of a full run over the types of s
RECURSIVE LoopSteps(_)
LoopSteps(s) ==
  IF s = <<>> THEN <<>>
  ELSE << <<"discovery", Head(s)>>, <<"count", Head(s)>>,
          <<"discover_ocdfg">>, <<"view_ocdfg">> >> \o LoopSteps(Tail(s))

FullRunSteps(s) ==
  << <<"total">> >> \o LoopSteps(s) \o << <<"summary">> >>
    \o [k \in DOMAIN s |-> <<"summary_line", s[k]>>]

IsPrefix(a, b) == Len(a) <= Len(b) /\ a = SubSeq(b, 1, Len(a))

\* C10: the universal relation is extracted once, then the distinct types
\* are processed one at a time in their first-seen order in the Object
\* table: per type the partition, one discover_ocdfg call, one view_ocdfg
\* call, and the count and the model are recorded before the next type is
\* partitioned; both returned mappings list the types in that order.
C10_SequentialFirstSeenOrder ==
  /\ Extracted => FirstSeenOrder(object_types)
  /\ pc # "start" =>
       IsPrefix([k \in DOMAIN trace |-> Step(trace[k])],
                FullRunSteps(object_types))
  /\ pc \in {"partition", "discover", "view", "record"} =>
       /\ sub_relation_counts.keys = SubSeq(object_types, 1, pos - 1)
       /\ discovered_models.keys = SubSeq(object_types, 1, pos - 1)
       /\ Len(AnnouncedTypes) = IF pc = "partition" THEN pos - 1 ELSE pos
  /\ pc = "record" =>
       /\ trace[Len(trace) - 1] =
            <<"call", "discover_ocdfg", part.sub_ocel, "returns">>
       /\ trace[Len(trace)] =
            <<"call", "view_ocdfg", OcdfgOf(part.sub_ocel), "returns">>
  /\ pc = "returned" =>
       /\ FirstSeenOrder(object_types)
       /\ [k \in DOMAIN trace |-> Step(trace[k])] = FullRunSteps(object_types)
       /\ returned[2].keys = object_types
       /\ returned[3].keys = object_types
       /\ \A T \in Range(object_types) :
            \E k \in DOMAIN trace :
              /\ trace[k] = <<"print", "count", T, returned[2].vals[T]>>
              /\ trace[k + 1][3] = returned[3].vals[T].ocdfg_of

\* a returned report whose types are in first-seen order, which is not the
\* sorted order
C10_Witness ==
  /\ pc = "returned"
  /\ returned[2].keys = <<"order", "item">>
  /\ returned[3].keys = <<"order", "item">>
  /\ returned[2].vals["order"] # returned[2].vals["item"]

====
